---- MODULE Spec2Model ----
(***************************************************************************)
(* Request types of the agent/service API (src/api/service/requests.rs).   *)
(*                                                                         *)
(* The file is declarative: every request is a struct whose derives        *)
(* (Builder, Default, Endpoint, Serialize) and attributes decide how a     *)
(* value is built and how it is turned into method, path, query string     *)
(* and body.  Each struct is written down here as a descriptor holding     *)
(* exactly the attributes and field declarations of the source, and the    *)
(* derives are operators over descriptors.                                 *)
(*                                                                         *)
(* Strings are sequences of one-character strings, so that substitution    *)
(* into a path template, form-urlencoding of a query value and the         *)
(* PascalCase renaming of a field are computed character by character.     *)
(***************************************************************************)
EXTENDS Naturals, Sequences, FiniteSets, TLC

VARIABLES kind, builder, nset, pc, value, resolved

vars == <<kind, builder, nset, pc, value, resolved>>

\* Most setter calls made on one builder before build().
MaxSetters == 3

----------------------------------------------------------------------------
\* Option<T>

None == [some |-> FALSE]

Some(x) == [some |-> TRUE, v |-> x]

----------------------------------------------------------------------------
\* Field declarations.  attr is the #[endpoint(..)] tag of the field
\* ("skip", "query", or "untagged" when the field carries none), option says
\* whether the declared type is Option<..>, ty is the type inside the Option,
\* rename is the field's #[serde(rename = "..")], serde_skip its #[serde(skip)].

Field(id, attr, option, ty) ==
    [id |-> id, attr |-> attr, option |-> option, ty |-> ty,
     rename |-> None, serde_skip |-> FALSE]

Renamed(f, name) == [f EXCEPT !.rename = Some(name)]

SerdeSkipped(f) == [f EXCEPT !.serde_skip = TRUE]

\* The spelling of every field identifier of the file.
Spell ==
    [features |-> <<"f","e","a","t","u","r","e","s">>, ns |-> <<"n","s">>, name |-> <<"n","a","m","e">>, id |-> <<"i","d">>,
     enable |-> <<"e","n","a","b","l","e">>, address |-> <<"a","d","d","r","e","s","s">>, check |-> <<"c","h","e","c","k">>,
     checks |-> <<"c","h","e","c","k","s">>, connect |-> <<"c","o","n","n","e","c","t">>,
     enable_tag_override |-> <<"e","n","a","b","l","e","_","t","a","g","_","o","v","e","r","r","i","d","e">>, kind |-> <<"k","i","n","d">>,
     meta |-> <<"m","e","t","a">>, port |-> <<"p","o","r","t">>, proxy |-> <<"p","r","o","x","y">>,
     tagged_addresses |-> <<"t","a","g","g","e","d","_","a","d","d","r","e","s","s","e","s">>, tags |-> <<"t","a","g","s">>,
     weights |-> <<"w","e","i","g","h","t","s">>, native |-> <<"n","a","t","i","v","e">>,
     sidecar_service |-> <<"s","i","d","e","c","a","r","_","s","e","r","v","i","c","e">>,
     destination_service_name |-> <<"d","e","s","t","i","n","a","t","i","o","n","_","s","e","r","v","i","c","e","_","n","a","m","e">>,
     passing |-> <<"p","a","s","s","i","n","g">>, warning |-> <<"w","a","r","n","i","n","g">>]

----------------------------------------------------------------------------
\* The structs.  path and method are the #[endpoint(..)] arguments (method is
\* None where the attribute gives none), rename_all is #[serde(rename_all)],
\* builder_default is the `default` of #[builder(..)].

ListServicesRequest ==
    [path |-> <<"a","g","e","n","t","/","s","e","r","v","i","c","e","s">>, method |-> None, rename_all |-> None,
     builder_default |-> TRUE,
     fields |-> << Field("features", "skip", TRUE, "Features"),
                   Field("ns", "query", TRUE, "String") >>]

ReadServiceRequest ==
    [path |-> <<"a","g","e","n","t","/","s","e","r","v","i","c","e","/","{","s","e","l","f",".","n","a","m","e","}">>, method |-> None,
     rename_all |-> None, builder_default |-> TRUE,
     fields |-> << Field("features", "skip", TRUE, "Features"),
                   Field("name", "skip", FALSE, "String"),
                   Field("ns", "query", TRUE, "String") >>]

ServiceHealthRequest ==
    [path |-> <<"a","g","e","n","t","/","h","e","a","l","t","h","/","s","e","r","v","i","c","e","/","n","a","m","e","/","{","s","e","l","f",".","n","a","m","e","}">>, method |-> None,
     rename_all |-> None, builder_default |-> TRUE,
     fields |-> << Field("features", "skip", TRUE, "Features"),
                   Field("name", "skip", FALSE, "String"),
                   Field("ns", "query", TRUE, "String") >>]

\* Variant of ServiceHealthByIdRequest whose template is the by-name path.
ServiceHealthByIdRequest_NamePath ==
    [path |-> <<"a","g","e","n","t","/","h","e","a","l","t","h","/","s","e","r","v","i","c","e","/","n","a","m","e","/","{","s","e","l","f",".","i","d","}">>, method |-> None,
     rename_all |-> None, builder_default |-> TRUE,
     fields |-> << Field("features", "skip", TRUE, "Features"),
                   Field("id", "skip", FALSE, "String"),
                   Field("ns", "query", TRUE, "String") >>]

ServiceHealthByIdRequest ==
    [path |-> <<"a","g","e","n","t","/","h","e","a","l","t","h","/","s","e","r","v","i","c","e","/","i","d","/","{","s","e","l","f",".","i","d","}">>, method |-> None,
     rename_all |-> None, builder_default |-> TRUE,
     fields |-> << Field("features", "skip", TRUE, "Features"),
                   Field("id", "skip", FALSE, "String"),
                   Field("ns", "query", TRUE, "String") >>]

RegisterFields ==
    << SerdeSkipped(Field("features", "skip", TRUE, "Features")),
       Field("name", "untagged", FALSE, "String"),
       Field("address", "untagged", TRUE, "String"),
       Field("check", "untagged", TRUE, "RegisterCheckRequest"),
       Field("checks", "untagged", TRUE, "Vec<RegisterCheckRequest>"),
       Field("connect", "untagged", TRUE, "Connect"),
       Field("enable_tag_override", "untagged", TRUE, "bool"),
       Renamed(Field("id", "untagged", TRUE, "String"), <<"I","D">>),
       Field("kind", "untagged", TRUE, "String"),
       Field("meta", "untagged", TRUE, "HashMap"),
       Field("ns", "untagged", TRUE, "String"),
       Field("port", "untagged", TRUE, "u64"),
       Field("proxy", "untagged", TRUE, "Proxy"),
       Field("tagged_addresses", "untagged", TRUE, "HashMap"),
       Field("tags", "untagged", TRUE, "Vec<String>"),
       Field("weights", "untagged", TRUE, "Weight") >>

\* Variant of RegisterServiceRequest without #[serde(rename_all)].
RegisterServiceRequest_NoRenameAll ==
    [path |-> <<"a","g","e","n","t","/","s","e","r","v","i","c","e","/","r","e","g","i","s","t","e","r">>, method |-> Some("PUT"),
     rename_all |-> None, builder_default |-> TRUE,
     fields |-> RegisterFields]

RegisterServiceRequest ==
    [path |-> <<"a","g","e","n","t","/","s","e","r","v","i","c","e","/","r","e","g","i","s","t","e","r">>, method |-> Some("PUT"),
     rename_all |-> Some("PascalCase"), builder_default |-> TRUE,
     fields |-> RegisterFields]

Connect ==
    [rename_all |-> Some("PascalCase"), builder_default |-> TRUE,
     fields |-> << Field("native", "untagged", TRUE, "bool"),
                   Field("sidecar_service", "untagged", TRUE, "SidecarService") >>]

Proxy ==
    [rename_all |-> None, builder_default |-> FALSE,
     fields |-> << Field("destination_service_name", "untagged", FALSE, "String") >>]

Weight ==
    [rename_all |-> Some("PascalCase"), builder_default |-> TRUE,
     fields |-> << Field("passing", "untagged", TRUE, "String"),
                   Field("warning", "untagged", TRUE, "String") >>]

SidecarService ==
    [rename_all |-> Some("PascalCase"), builder_default |-> TRUE,
     fields |-> << Field("name", "untagged", FALSE, "String"),
                   Field("address", "untagged", TRUE, "String"),
                   Field("check", "untagged", TRUE, "RegisterCheckRequest"),
                   Field("checks", "untagged", TRUE, "Vec<RegisterCheckRequest>"),
                   Field("enable_tag_override", "untagged", TRUE, "bool"),
                   Renamed(Field("id", "untagged", TRUE, "String"), <<"I","D">>),
                   Field("kind", "untagged", TRUE, "String"),
                   Field("meta", "untagged", TRUE, "HashMap"),
                   Field("ns", "untagged", TRUE, "String"),
                   Field("port", "untagged", TRUE, "u64"),
                   Field("proxy", "untagged", TRUE, "Proxy"),
                   Field("tagged_addresses", "untagged", TRUE, "HashMap"),
                   Field("tags", "untagged", TRUE, "Vec<String>"),
                   Field("weights", "untagged", TRUE, "Weight") >>]

\* Variant of DeregisterServiceRequest without method = "PUT".
DeregisterServiceRequest_NoMethod ==
    [path |-> <<"a","g","e","n","t","/","s","e","r","v","i","c","e","/","d","e","r","e","g","i","s","t","e","r","/","{","s","e","l","f",".","i","d","}">>, method |-> None,
     rename_all |-> None, builder_default |-> TRUE,
     fields |-> << Field("features", "skip", TRUE, "Features"),
                   Field("id", "skip", FALSE, "String"),
                   Field("ns", "query", TRUE, "String") >>]

DeregisterServiceRequest ==
    [path |-> <<"a","g","e","n","t","/","s","e","r","v","i","c","e","/","d","e","r","e","g","i","s","t","e","r","/","{","s","e","l","f",".","i","d","}">>, method |-> Some("PUT"),
     rename_all |-> None, builder_default |-> TRUE,
     fields |-> << Field("features", "skip", TRUE, "Features"),
                   Field("id", "skip", FALSE, "String"),
                   Field("ns", "query", TRUE, "String") >>]

\* Variant of EnableMaintenanceRequest declaring ns before enable.
EnableMaintenanceRequest_NsFirst ==
    [path |-> <<"a","g","e","n","t","/","s","e","r","v","i","c","e","/","m","a","i","n","t","e","n","a","n","c","e","/","{","s","e","l","f",".","i","d","}">>, method |-> Some("PUT"),
     rename_all |-> None, builder_default |-> TRUE,
     fields |-> << Field("features", "skip", TRUE, "Features"),
                   Field("id", "skip", FALSE, "String"),
                   Field("ns", "query", TRUE, "String"),
                   Field("enable", "query", FALSE, "bool") >>]

\* Variant of EnableMaintenanceRequest whose enable is tagged skip.
EnableMaintenanceRequest_EnableSkipped ==
    [path |-> <<"a","g","e","n","t","/","s","e","r","v","i","c","e","/","m","a","i","n","t","e","n","a","n","c","e","/","{","s","e","l","f",".","i","d","}">>, method |-> Some("PUT"),
     rename_all |-> None, builder_default |-> TRUE,
     fields |-> << Field("features", "skip", TRUE, "Features"),
                   Field("id", "skip", FALSE, "String"),
                   Field("enable", "skip", FALSE, "bool"),
                   Field("ns", "query", TRUE, "String") >>]

EnableMaintenanceRequest ==
    [path |-> <<"a","g","e","n","t","/","s","e","r","v","i","c","e","/","m","a","i","n","t","e","n","a","n","c","e","/","{","s","e","l","f",".","i","d","}">>, method |-> Some("PUT"),
     rename_all |-> None, builder_default |-> TRUE,
     fields |-> << Field("features", "skip", TRUE, "Features"),
                   Field("id", "skip", FALSE, "String"),
                   Field("enable", "query", FALSE, "bool"),
                   Field("ns", "query", TRUE, "String") >>]

\* The request types, and the struct behind a type name.
Kinds ==
    {"ListServicesRequest", "ReadServiceRequest", "ServiceHealthRequest",
     "ServiceHealthByIdRequest", "RegisterServiceRequest",
     "DeregisterServiceRequest", "EnableMaintenanceRequest"}

Struct(ty) ==
    CASE ty = "ListServicesRequest" -> ListServicesRequest
      [] ty = "ReadServiceRequest" -> ReadServiceRequest
      [] ty = "ServiceHealthRequest" -> ServiceHealthRequest
      [] ty = "ServiceHealthByIdRequest" -> ServiceHealthByIdRequest
      [] ty = "RegisterServiceRequest" -> RegisterServiceRequest
      [] ty = "DeregisterServiceRequest" -> DeregisterServiceRequest
      [] ty = "EnableMaintenanceRequest" -> EnableMaintenanceRequest
      [] ty = "Connect" -> Connect
      [] ty = "Proxy" -> Proxy
      [] ty = "Weight" -> Weight
      [] ty = "SidecarService" -> SidecarService

IsStruct(ty) == ty \in {"Connect", "Proxy", "Weight", "SidecarService"}

FieldIds(d) == {d.fields[i].id : i \in DOMAIN d.fields}

FieldOf(d, id) == d.fields[CHOOSE i \in DOMAIN d.fields : d.fields[i].id = id]

----------------------------------------------------------------------------
\* #[derive(Default)]: an Option field is None, a String is empty, a bool is
\* false, an integer is 0.

DefaultOf(f) ==
    IF f.option THEN None
    ELSE CASE f.ty = "String" -> << >>
           [] f.ty = "bool" -> FALSE
           [] f.ty = "u64" -> 0

Default(d) == [id \in FieldIds(d) |-> DefaultOf(FieldOf(d, id))]

----------------------------------------------------------------------------
\* #[derive(Builder)] with #[builder(setter(into, strip_option), default)].
\* The builder holds one Option per field, None until the setter is called.
\* A setter of an Option<T> field takes the T and stores Some(T)
\* (strip_option).  build() takes each field from the builder when it was
\* set and from Default::default() of the struct otherwise; without the
\* struct-level `default` an unset field makes build() fail.

BuilderNew(d) == [id \in FieldIds(d) |-> None]

SetterOf(d, b, id, x) ==
    [b EXCEPT ![id] = Some(IF FieldOf(d, id).option THEN Some(x) ELSE x)]

BuildOf(d, b) ==
    IF d.builder_default
    THEN [ok |-> TRUE,
          v |-> [id \in FieldIds(d) |->
                    IF b[id].some THEN b[id].v ELSE Default(d)[id]]]
    ELSE IF \E id \in FieldIds(d) : ~b[id].some
         THEN [ok |-> FALSE, err |-> "UninitializedField"]
         ELSE [ok |-> TRUE, v |-> [id \in FieldIds(d) |-> b[id].v]]

----------------------------------------------------------------------------
\* #[derive(Endpoint)]: method().  GET unless the attribute names a method.

MethodOf(d) == IF d.method.some THEN d.method.v ELSE "GET"

\* #[derive(Endpoint)]: path().  Every {expr} of the template becomes one {}
\* of a format string whose argument is expr, so the value of self.<field> is
\* written as it is, without any escaping.

IndexOf(s, c, from) ==
    IF \E i \in from..Len(s) : s[i] = c
    THEN CHOOSE i \in from..Len(s) :
            s[i] = c /\ \A j \in from..(i - 1) : s[j] # c
    ELSE 0

\* The field named by a placeholder expression self.<field>.
ExprField(expr) ==
    CHOOSE id \in DOMAIN Spell : expr = <<"s","e","l","f",".">> \o Spell[id]

RECURSIVE Format(_, _)
Format(t, v) ==
    IF t = << >> THEN << >>
    ELSE IF Head(t) = "{" /\ IndexOf(t, "}", 2) # 0
         THEN LET close == IndexOf(t, "}", 2)
              IN  v[ExprField(SubSeq(t, 2, close - 1))]
                    \o Format(SubSeq(t, close + 1, Len(t)), v)
         ELSE <<Head(t)>> \o Format(Tail(t), v)

PathOf(d, v) == Format(d.path, v)

----------------------------------------------------------------------------
\* Form-urlencoding of a query name or value (serde_urlencoded): letters,
\* digits and * - . _ stay, a space becomes +, every other byte becomes %XX.

Unreserved ==
    {"a","b","c","d","e","f","g","h","i","j","k","l","m","n","o","p","q","r",
     "s","t","u","v","w","x","y","z","A","B","C","D","E","F","G","H","I","J",
     "K","L","M","N","O","P","Q","R","S","T","U","V","W","X","Y","Z",
     "0","1","2","3","4","5","6","7","8","9","*","-",".","_"}

PercentCode ==
    [c \in {"&", "=", "/", "+", "%", "?"} |->
        CASE c = "&" -> <<"%","2","6">> [] c = "=" -> <<"%","3","D">> [] c = "/" -> <<"%","2","F">>
          [] c = "+" -> <<"%","2","B">> [] c = "%" -> <<"%","2","5">> [] c = "?" -> <<"%","3","F">>]

EncodeChar(c) ==
    IF c \in Unreserved THEN <<c>>
    ELSE IF c = " " THEN <<"+">>
    ELSE PercentCode[c]

RECURSIVE UrlEncode(_)
UrlEncode(s) ==
    IF s = << >> THEN << >> ELSE EncodeChar(Head(s)) \o UrlEncode(Tail(s))

\* The string form of a query value: a bool is true/false, a String itself.
QueryValue(f, x) ==
    IF f.ty = "bool" THEN (IF x THEN <<"t","r","u","e">> ELSE <<"f","a","l","s","e">>) ELSE x

\* #[derive(Endpoint)]: query().  The fields tagged query, in declaration
\* order; an Option field that is None is skipped; the pairs are joined by &.
\* A struct without query fields keeps the trait's default, no query.

SelectFields(d, attr) == SelectSeq(d.fields, LAMBDA f : f.attr = attr)

RECURSIVE QueryPairs(_, _)
QueryPairs(fs, v) ==
    IF fs = << >> THEN << >>
    ELSE LET f == Head(fs)
             x == v[f.id]
             rest == QueryPairs(Tail(fs), v)
         IN  IF f.option /\ ~x.some THEN rest
             ELSE <<UrlEncode(Spell[f.id]) \o <<"=">>
                      \o UrlEncode(QueryValue(f, IF f.option THEN x.v ELSE x))>>
                  \o rest

RECURSIVE Join(_, _)
Join(parts, sep) ==
    IF parts = << >> THEN << >>
    ELSE IF Len(parts) = 1 THEN parts[1]
    ELSE parts[1] \o sep \o Join(Tail(parts), sep)

QueryOf(d, v) ==
    IF SelectFields(d, "query") = << >> THEN None
    ELSE Some(Join(QueryPairs(SelectFields(d, "query"), v), <<"&">>))


----------------------------------------------------------------------------
\* #[derive(Serialize)].  A serialized value is a tree: null, a string, a
\* bool, a number, an array, a map (the entries of a HashMap, user keys) or
\* an object (the fields of a struct, keys from the declaration).

JNull == [t |-> "null"]

JStr(s) == [t |-> "str", s |-> s]

JBool(b) == [t |-> "bool", b |-> b]

JNum(n) == [t |-> "num", n |-> n]

JArr(a) == [t |-> "arr", a |-> a]

JMap(m) == [t |-> "map", m |-> m]

JObj(o) == [t |-> "obj", o |-> o]

\* A RegisterCheckRequest, declared in api/check/requests.rs: its
\* serialization is not decided by this file and is kept opaque.
JCheck == [t |-> "check"]

UpperCase ==
    [c \in {"a","b","c","d","e","f","g","h","i","j","k","l","m","n","o","p",
            "q","r","s","t","u","v","w","x","y","z"} |->
        CASE c = "a" -> "A" [] c = "b" -> "B" [] c = "c" -> "C" [] c = "d" -> "D"
          [] c = "e" -> "E" [] c = "f" -> "F" [] c = "g" -> "G" [] c = "h" -> "H"
          [] c = "i" -> "I" [] c = "j" -> "J" [] c = "k" -> "K" [] c = "l" -> "L"
          [] c = "m" -> "M" [] c = "n" -> "N" [] c = "o" -> "O" [] c = "p" -> "P"
          [] c = "q" -> "Q" [] c = "r" -> "R" [] c = "s" -> "S" [] c = "t" -> "T"
          [] c = "u" -> "U" [] c = "v" -> "V" [] c = "w" -> "W" [] c = "x" -> "X"
          [] c = "y" -> "Y" [] c = "z" -> "Z"]

ToUpper(c) == IF c \in DOMAIN UpperCase THEN UpperCase[c] ELSE c

\* rename_all = "PascalCase": an underscore is dropped and the character
\* after it, like the first one, is upper-cased.
RECURSIVE Pascal(_, _)
Pascal(s, capitalize) ==
    IF s = << >> THEN << >>
    ELSE IF Head(s) = "_" THEN Pascal(Tail(s), TRUE)
    ELSE IF capitalize THEN <<ToUpper(Head(s))>> \o Pascal(Tail(s), FALSE)
    ELSE <<Head(s)>> \o Pascal(Tail(s), FALSE)

PascalCase(s) == Pascal(s, TRUE)

\* The key of a field: its own rename, else the struct's rename_all applied
\* to the identifier, else the identifier.
WireName(f, rename_all) ==
    IF f.rename.some THEN f.rename.v
    ELSE IF rename_all = Some("PascalCase") THEN PascalCase(Spell[f.id])
    ELSE Spell[f.id]

\* Serialization of a value of type ty, and of the fields fs of a struct
\* value v.  A field marked #[serde(skip)] is left out; an Option field that
\* is None is left out when it carries skip_serializing_if = "Option::is_none"
\* (skip_none), and is written as null otherwise.
RECURSIVE Serialize(_, _)
RECURSIVE SerializeFields(_, _, _, _)
Serialize(ty, x) ==
    CASE ty = "String" -> JStr(x)
      [] ty = "bool" -> JBool(x)
      [] ty = "u64" -> JNum(x)
      [] ty = "Vec<String>" -> JArr([i \in DOMAIN x |-> JStr(x[i])])
      [] ty = "HashMap" ->
            JMap([i \in DOMAIN x |-> [k |-> x[i].k, v |-> JStr(x[i].v)]])
      [] ty = "RegisterCheckRequest" -> JCheck
      [] ty = "Vec<RegisterCheckRequest>" -> JArr([i \in DOMAIN x |-> JCheck])
      [] IsStruct(ty) ->
            JObj(SerializeFields(Struct(ty).fields, Struct(ty).rename_all, x, FALSE))

SerializeFields(fs, rename_all, v, skip_none) ==
    IF fs = << >> THEN << >>
    ELSE LET f == Head(fs)
             x == v[f.id]
             rest == SerializeFields(Tail(fs), rename_all, v, skip_none)
         IN  IF f.serde_skip THEN rest
             ELSE IF f.option /\ ~x.some
                  THEN IF skip_none THEN rest
                       ELSE <<[k |-> WireName(f, rename_all), v |-> JNull]>> \o rest
             ELSE <<[k |-> WireName(f, rename_all),
                     v |-> Serialize(f.ty, IF f.option THEN x.v ELSE x)]>> \o rest

\* #[derive(Endpoint)]: body().  The fields that carry no #[endpoint(..)] tag
\* are copied into a temporary struct that keeps the struct's and the
\* fields' serde attributes and adds skip_serializing_if = "Option::is_none"
\* to every Option field; that struct is serialized.  A struct without such
\* fields keeps the trait's default, no body.
BodyOf(d, v) ==
    IF SelectFields(d, "untagged") = << >> THEN None
    ELSE Some(JObj(SerializeFields(SelectFields(d, "untagged"), d.rename_all, v, TRUE)))

\* Endpoint::request(): method, path, query and body of one request value.
\* None of the four can fail for the types of this file.
CompileOf(d, v) ==
    [err |-> "none", method |-> MethodOf(d), path |-> PathOf(d, v),
     query |-> QueryOf(d, v), body |-> BodyOf(d, v)]

----------------------------------------------------------------------------
\* The values a setter is called with.

PathStrings == {<< >>, <<"w","e","b","-","1">>, <<"s","v","c","1">>, <<"a","/","b">>}

QueryStrings == {<< >>, <<"d","c","1">>, <<"x","&","y","="," ","z">>}

BodyStrings == {<< >>, <<"w","e","b">>}

Weights ==
    {[passing |-> p, warning |-> w] :
        p \in {None, Some(<<"1">>)}, w \in {None, Some(<<"1">>)}}

Proxies == {[destination_service_name |-> <<"w","e","b">>]}

HashMaps ==
    {<< >>,
     <<[k |-> <<"e","n","v">>, v |-> <<"d","e","v">>]>>,
     <<[k |-> <<"e","n","v">>, v |-> <<"d","e","v">>], [k |-> <<"a","z">>, v |-> <<"a">>]>>,
     <<[k |-> <<"a","z">>, v |-> <<"a">>], [k |-> <<"e","n","v">>, v |-> <<"d","e","v">>]>>}

SidecarServices ==
    {Default(SidecarService),
     [Default(SidecarService) EXCEPT !.name = <<"w","e","b">>, !.id = Some(<<"w","e","b","-","1">>)],
     [Default(SidecarService) EXCEPT
        !.name = <<"w","e","b">>,
        !.proxy = Some([destination_service_name |-> <<"w","e","b">>]),
        !.weights = Some([passing |-> Some(<<"1">>), warning |-> None])]}

Connects ==
    {[native |-> n, sidecar_service |-> s] :
        n \in {None, Some(TRUE)},
        s \in {None} \cup {Some(x) : x \in SidecarServices}}

Values(f) ==
    CASE f.ty = "String" ->
            (CASE f.attr = "skip" -> PathStrings
               [] f.attr = "query" -> QueryStrings
               [] OTHER -> BodyStrings)
      [] f.ty = "bool" -> BOOLEAN
      [] f.ty = "u64" -> {0, 8080}
      [] f.ty = "Features" -> {"features"}
      [] f.ty = "RegisterCheckRequest" -> {"check"}
      [] f.ty = "Vec<RegisterCheckRequest>" -> {<< >>, <<"check">>}
      [] f.ty = "Vec<String>" -> {<< >>, <<<<"a">>, <<"b">>>>}
      [] f.ty = "HashMap" -> HashMaps
      [] f.ty = "Connect" -> Connects
      [] f.ty = "Proxy" -> Proxies
      [] f.ty = "Weight" -> Weights

----------------------------------------------------------------------------
\* One request: XxxRequest::builder(), setter calls, build(), and the
\* compilation of the built value.

Init ==
    /\ kind \in Kinds
    /\ builder = BuilderNew(Struct(kind))
    /\ nset = 0
    /\ pc = "building"
    /\ value = None
    /\ resolved = None

Setter ==
    /\ pc = "building"
    /\ nset < MaxSetters
    /\ \E i \in DOMAIN Struct(kind).fields :
          \E x \in Values(Struct(kind).fields[i]) :
             builder' = SetterOf(Struct(kind), builder, Struct(kind).fields[i].id, x)
    /\ nset' = nset + 1
    /\ UNCHANGED <<kind, pc, value, resolved>>

Build ==
    /\ pc = "building"
    /\ BuildOf(Struct(kind), builder).ok
    /\ value' = Some(BuildOf(Struct(kind), builder).v)
    /\ pc' = "built"
    /\ UNCHANGED <<kind, builder, nset, resolved>>

Compile ==
    /\ pc = "built"
    /\ resolved' = Some(CompileOf(Struct(kind), value.v))
    /\ pc' = "compiled"
    /\ UNCHANGED <<kind, builder, nset, value>>

Next == Setter \/ Build \/ Compile

Spec == Init /\ [][Next]_vars


----------------------------------------------------------------------------
\* Reading of results, used to state the properties.

Compiled == pc = "compiled"

\* The query string of the resolved request: empty when there is no query.
QueryString == IF resolved.v.query.some THEN resolved.v.query.v ELSE << >>

RECURSIVE Split(_, _)
Split(s, c) ==
    IF IndexOf(s, c, 1) = 0 THEN <<s>>
    ELSE <<SubSeq(s, 1, IndexOf(s, c, 1) - 1)>>
            \o Split(SubSeq(s, IndexOf(s, c, 1) + 1, Len(s)), c)

RECURSIVE UrlDecode(_)
UrlDecode(s) ==
    IF s = << >> THEN << >>
    ELSE IF Head(s) = "+" THEN <<" ">> \o UrlDecode(Tail(s))
    ELSE IF Head(s) = "%" /\ Len(s) >= 3
         THEN <<CHOOSE c \in DOMAIN PercentCode : PercentCode[c] = SubSeq(s, 1, 3)>>
                 \o UrlDecode(SubSeq(s, 4, Len(s)))
    ELSE <<Head(s)>> \o UrlDecode(Tail(s))

\* What a server reads out of a query string: the parts between &, each cut
\* at its first = and decoded.
ParsePair(p) ==
    LET eq == IndexOf(p, "=", 1)
    IN  IF eq = 0 THEN [k |-> UrlDecode(p), v |-> << >>]
        ELSE [k |-> UrlDecode(SubSeq(p, 1, eq - 1)),
              v |-> UrlDecode(SubSeq(p, eq + 1, Len(p)))]

ParseQuery(q) ==
    IF q = << >> THEN << >>
    ELSE [i \in DOMAIN Split(q, "&") |-> ParsePair(Split(q, "&")[i])]

\* The struct keys of a serialized tree (not the user keys of a map), and
\* whether a null occurs in it, at any depth.
RECURSIVE StructKeys(_)
StructKeys(j) ==
    CASE j.t = "obj" ->
            {j.o[i].k : i \in DOMAIN j.o}
               \cup UNION {StructKeys(j.o[i].v) : i \in DOMAIN j.o}
      [] j.t = "arr" -> UNION {StructKeys(j.a[i]) : i \in DOMAIN j.a}
      [] j.t = "map" -> UNION {StructKeys(j.m[i].v) : i \in DOMAIN j.m}
      [] OTHER -> {}

RECURSIVE HasNull(_)
HasNull(j) ==
    CASE j.t = "null" -> TRUE
      [] j.t = "obj" -> \E i \in DOMAIN j.o : HasNull(j.o[i].v)
      [] j.t = "arr" -> \E i \in DOMAIN j.a : HasNull(j.a[i])
      [] j.t = "map" -> \E i \in DOMAIN j.m : HasNull(j.m[i].v)
      [] OTHER -> FALSE

\* The request types whose path template has a placeholder, and its field.
PathKinds ==
    {"ReadServiceRequest", "ServiceHealthRequest", "ServiceHealthByIdRequest",
     "DeregisterServiceRequest", "EnableMaintenanceRequest"}

PathField ==
    IF kind \in {"ReadServiceRequest", "ServiceHealthRequest"} THEN "name" ELSE "id"

----------------------------------------------------------------------------
\* C1: EnableMaintenanceRequest { id: "svc1", enable: true, ns: None }
\* compiles to PUT, path agent/service/maintenance/svc1, query string exactly
\* enable=true, and no body.
C1_MaintenanceScenario ==
    (/\ Compiled
     /\ kind = "EnableMaintenanceRequest"
     /\ value.v.id = <<"s","v","c","1">> /\ value.v.enable = TRUE /\ value.v.ns = None)
    => /\ resolved.v.err = "none"
       /\ resolved.v.method = "PUT"
       /\ resolved.v.path = <<"a","g","e","n","t","/","s","e","r","v","i","c","e","/","m","a","i","n","t","e","n","a","n","c","e","/","s","v","c","1">>
       /\ QueryString = <<"e","n","a","b","l","e","=","t","r","u","e">>
       /\ resolved.v.body = None

C1_Witness ==
    /\ Compiled
    /\ kind = "EnableMaintenanceRequest"
    /\ value.v.id = <<"s","v","c","1">> /\ value.v.enable = TRUE /\ value.v.ns = None

\* C2: a RegisterServiceRequest whose only set field is name = "web"
\* compiles to PUT, path agent/service/register, an empty query string, and
\* a body that is present and holds exactly one key, Name, with value "web".
C2_RegisterScenario ==
    (/\ Compiled
     /\ kind = "RegisterServiceRequest"
     /\ value.v = [Default(RegisterServiceRequest) EXCEPT !.name = <<"w","e","b">>])
    => /\ resolved.v.err = "none"
       /\ resolved.v.method = "PUT"
       /\ resolved.v.path = <<"a","g","e","n","t","/","s","e","r","v","i","c","e","/","r","e","g","i","s","t","e","r">>
       /\ QueryString = << >>
       /\ resolved.v.body = Some(JObj(<<[k |-> <<"N","a","m","e">>, v |-> JStr(<<"w","e","b">>)]>>))

C2_Witness ==
    /\ Compiled
    /\ kind = "RegisterServiceRequest"
    /\ builder.name = Some(<<"w","e","b">>)
    /\ \A id \in DOMAIN builder : id # "name" => builder[id] = None

\* C3: for every request type whose path template has a placeholder,
\* compiling a value on which the placeholder's field was never set fails
\* with MissingPathField, and no resolved request with an empty path segment
\* is produced.
C3_MissingPathField ==
    (Compiled /\ kind \in PathKinds /\ ~builder[PathField].some)
    => /\ resolved.v.err = "MissingPathField"
       /\ resolved.v.path[Len(resolved.v.path)] # "/"

\* C4: in every serialized body, at every nesting depth, an Option field
\* that is None produces no key at all, never a key with value null.
C4_NoNullAnywhere ==
    (Compiled /\ resolved.v.body.some) => ~HasNull(resolved.v.body.v)

\* The pairs a server must read: enable (maintenance only), then ns if set.
C5_ExpectedPairs ==
    (IF kind = "EnableMaintenanceRequest"
     THEN <<[k |-> <<"e","n","a","b","l","e">>,
             v |-> IF value.v.enable THEN <<"t","r","u","e">> ELSE <<"f","a","l","s","e">>]>>
     ELSE << >>)
    \o (IF kind # "RegisterServiceRequest" /\ value.v.ns.some
        THEN <<[k |-> <<"n","s">>, v |-> value.v.ns.v]>>
        ELSE << >>)

\* C5: for every request type and value the query string holds no parameter
\* for an absent query field, exactly one name=value pair for each present
\* one, in declaration order (enable before ns), and is the empty string
\* without a leading ? when no query field is present.
C5_QueryPairs ==
    Compiled
    => /\ ParseQuery(QueryString) = C5_ExpectedPairs
       /\ C5_ExpectedPairs = << >> => QueryString = << >>
       /\ QueryString # << >> => Head(QueryString) # "?"

C5_Witness ==
    /\ Compiled
    /\ kind = "EnableMaintenanceRequest"
    /\ value.v.ns = Some(<<"x","&","y","="," ","z">>)
    /\ Len(ParseQuery(QueryString)) = 2

\* The documented path of each request type, filled in by hand.
C6_ExpectedPath ==
    CASE kind = "ListServicesRequest" -> <<"a","g","e","n","t","/","s","e","r","v","i","c","e","s">>
      [] kind = "ReadServiceRequest" -> <<"a","g","e","n","t","/","s","e","r","v","i","c","e","/">> \o value.v.name
      [] kind = "ServiceHealthRequest" ->
            <<"a","g","e","n","t","/","h","e","a","l","t","h","/","s","e","r","v","i","c","e","/","n","a","m","e","/">> \o value.v.name
      [] kind = "ServiceHealthByIdRequest" ->
            <<"a","g","e","n","t","/","h","e","a","l","t","h","/","s","e","r","v","i","c","e","/","i","d","/">> \o value.v.id
      [] kind = "RegisterServiceRequest" -> <<"a","g","e","n","t","/","s","e","r","v","i","c","e","/","r","e","g","i","s","t","e","r">>
      [] kind = "DeregisterServiceRequest" ->
            <<"a","g","e","n","t","/","s","e","r","v","i","c","e","/","d","e","r","e","g","i","s","t","e","r","/">> \o value.v.id
      [] kind = "EnableMaintenanceRequest" ->
            <<"a","g","e","n","t","/","s","e","r","v","i","c","e","/","m","a","i","n","t","e","n","a","n","c","e","/">> \o value.v.id

\* C6: the resolved path is the path template with the placeholder replaced
\* by the field's value and nothing else changed; a value holding a path
\* separator is inserted verbatim, and no placeholder text remains.
C6_PathSubstitution ==
    Compiled
    => /\ resolved.v.path = C6_ExpectedPath
       /\ \A i \in DOMAIN resolved.v.path : resolved.v.path[i] \notin {"{", "}"}

C6_Witness ==
    /\ Compiled
    /\ kind = "ServiceHealthByIdRequest"
    /\ value.v.id = <<"a","/","b">>
    /\ resolved.v.path = <<"a","g","e","n","t","/","h","e","a","l","t","h","/","s","e","r","v","i","c","e","/","i","d","/","a","/","b">>

\* The wire keys: PascalCase of every field identifier, and ID for id.
C7_WireKeys ==
    {PascalCase(Spell[id]) : id \in DOMAIN Spell \ {"id"}} \cup {<<"I","D">>}

\* C7: every key emitted in a serialized body, at every nesting depth, is
\* the PascalCase form of the in-memory field name and so differs from it,
\* and an id field is always emitted as ID.
C7_PascalCaseKeys ==
    (Compiled /\ resolved.v.body.some)
    => \A k \in StructKeys(resolved.v.body.v) :
          k \in C7_WireKeys /\ k \notin {Spell[id] : id \in DOMAIN Spell}

\* C9: method and body presence are fixed per request type: the four read
\* requests are GET without body, deregister and maintenance are PUT without
\* body, register is PUT with a body and is the only type with a body.
C9_MethodAndBody ==
    Compiled
    => /\ resolved.v.method =
            (IF kind \in {"RegisterServiceRequest", "DeregisterServiceRequest",
                          "EnableMaintenanceRequest"}
             THEN "PUT" ELSE "GET")
       /\ resolved.v.body.some <=> kind = "RegisterServiceRequest"

C9_Witness ==
    /\ Compiled
    /\ kind = "DeregisterServiceRequest"
    /\ builder.id.some /\ builder.ns.some
    /\ resolved.v.method = "PUT" /\ ~resolved.v.body.some

\* The value built by the same builder after enable(false), after name("").
C10_SetEnableFalse ==
    BuildOf(Struct(kind), SetterOf(Struct(kind), builder, "enable", FALSE)).v

C10_SetNameEmpty ==
    BuildOf(Struct(kind), SetterOf(Struct(kind), builder, "name", << >>)).v

\* C10: a field no setter was called for stays distinguishable from a field
\* set to the zero value of its type: a builder on which enable was never
\* set does not build and compile to the same request as the same builder
\* with enable set to false, and a never-set name is not the same as name
\* set to the empty string.
C10_UnsetIsNotZero ==
    /\ (Compiled /\ kind = "EnableMaintenanceRequest" /\ ~builder.enable.some)
       => resolved.v # CompileOf(Struct(kind), C10_SetEnableFalse)
    /\ (Compiled /\ kind = "RegisterServiceRequest" /\ ~builder.name.some)
       => /\ value.v # C10_SetNameEmpty
          /\ resolved.v # CompileOf(Struct(kind), C10_SetNameEmpty)


====
